---- MODULE Spec2Model ----
(***************************************************************************)
(* Model of the EvaluationRow helpers of src/schema/evaluation-row.d.ts.   *)
(*                                                                         *)
(* The helpers are pure functions over arbitrary JavaScript values, so the *)
(* model carries a small universe of JavaScript values (tagged records),   *)
(* the language primitives the helpers use (truthiness, typeof, property   *)
(* read, Array.isArray) and one operator per helper, computed as the code  *)
(* computes it.  An abrupt completion (a thrown TypeError) is the value    *)
(* TypeError.  Arrays are dense, as JSON.parse and array literals build    *)
(* them.                                                                   *)
(***************************************************************************)
EXTENDS Integers, Sequences, FiniteSets, TLC

VARIABLES row, op, args, result

\* the helper calls on plain values
helperVars == <<row, op, args, result>>

\* a heap with object identity: message objects, arrays of references to
\* them, the array a filter returned last and its contents at that time
VARIABLES heapObjects, heapArrays, returned, snapshot

heapVars == <<heapObjects, heapArrays, returned, snapshot>>

\* the Workflow component: its React state and the runTests calls in flight
VARIABLES isRunning, terminalOutput, currentTest, runs

workflowVars == <<isRunning, terminalOutput, currentTest, runs>>

vars == <<row, op, args, result, heapObjects, heapArrays, returned, snapshot,
          isRunning, terminalOutput, currentTest, runs>>

(***************************************************************************)
(* Bounds                                                                  *)
(***************************************************************************)
MaxLen == 2          \* longest messages array drawn as an input
MaxSteps == 2        \* longest step_outputs array drawn as an input
MaxObjects == 2      \* message objects on the heap, and longest heap array
MaxRuns == 2         \* clicks on "Run Evaluations" followed

NumTests == 8        \* testConfigs.length

(***************************************************************************)
(* JavaScript values                                                       *)
(***************************************************************************)
Undefined == [t |-> "undefined"]
Null == [t |-> "null"]
Num(n) == [t |-> "number", n |-> n]
Str(s) == [t |-> "string", s |-> s]
Bool(b) == [t |-> "boolean", b |-> b]
Arr(e) == [t |-> "array", e |-> e]
Obj(f) == [t |-> "object", f |-> f]
TypeError == [t |-> "TypeError"]
SyntaxError == [t |-> "SyntaxError"]

NoFields == [k \in {} |-> Undefined]

\* ToBoolean: undefined, null, 0, "" and false are falsy.
Truthy(v) ==
  CASE v.t = "undefined" -> FALSE
    [] v.t = "null" -> FALSE
    [] v.t = "number" -> v.n # 0
    [] v.t = "string" -> v.s # ""
    [] v.t = "boolean" -> v.b
    [] OTHER -> TRUE

\* typeof: null and arrays report "object".
TypeOf(v) ==
  CASE v.t = "null" -> "object"
    [] v.t = "array" -> "object"
    [] OTHER -> v.t

IsArray(v) == v.t = "array"

IsNullish(v) == v.t \in {"undefined", "null"}

\* v[k]: reading a property of undefined or null throws; a missing property
\* reads as undefined; arrays and strings have a length.
Get(v, k) ==
  IF IsNullish(v) THEN TypeError
  ELSE IF v.t = "object" THEN (IF k \in DOMAIN v.f THEN v.f[k] ELSE Undefined)
  ELSE IF v.t = "array" /\ k = "length" THEN Num(Len(v.e))
  ELSE IF v.t = "string" /\ k = "length" THEN Num(Len(v.s))
  ELSE Undefined

\* v?.[k]
OptGet(v, k) == IF IsNullish(v) THEN Undefined ELSE Get(v, k)

(***************************************************************************)
(* isEvaluationRow                                                         *)
(***************************************************************************)
\* the callback handed to every(): msg && typeof msg === 'object' &&
\* typeof msg.role === 'string', coerced to a boolean by every().
isMessage(msg) ==
  /\ Truthy(msg)
  /\ TypeOf(msg) = "object"
  /\ TypeOf(Get(msg, "role")) = "string"

\* a && b yields a itself when a is falsy.
isEvaluationRow_TruthyRole(obj) ==
  IF ~Truthy(obj) THEN obj
  ELSE IF TypeOf(obj) # "object" THEN Bool(FALSE)
  ELSE IF ~IsArray(Get(obj, "messages")) THEN Bool(FALSE)
  ELSE LET messages == Get(obj, "messages").e
       IN Bool(\A i \in 1..Len(messages) :
                 isMessage(messages[i]) /\ Truthy(Get(messages[i], "role")))

isEvaluationRow(obj) ==
  IF ~Truthy(obj) THEN obj
  ELSE IF TypeOf(obj) # "object" THEN Bool(FALSE)
  ELSE IF ~IsArray(Get(obj, "messages")) THEN Bool(FALSE)
  ELSE LET messages == Get(obj, "messages").e
       IN Bool(\A i \in 1..Len(messages) : isMessage(messages[i]))

(***************************************************************************)
(* isTrajectoryEvaluation                                                  *)
(***************************************************************************)
\* x.length > 0, for a non-nullish x
LengthPositive(x) ==
  LET len == Get(x, "length") IN len.t = "number" /\ len.n > 0

isTrajectoryEvaluation_KeyPresence(r) ==
  IF IsNullish(r) THEN TypeError
  ELSE IF ~(r.t = "object" /\ "evaluation_result" \in DOMAIN r.f) THEN Bool(FALSE)
  ELSE LET evaluation_result == Get(r, "evaluation_result") IN
    IF IsNullish(evaluation_result) THEN TypeError
    ELSE LET step_outputs == Get(evaluation_result, "step_outputs") IN
      IF step_outputs = Undefined THEN Bool(FALSE)
      ELSE IF IsNullish(step_outputs) THEN TypeError
      ELSE Bool(LengthPositive(step_outputs))

isTrajectoryEvaluation(r) ==
  IF IsNullish(r) THEN TypeError
  ELSE LET evaluation_result == Get(r, "evaluation_result") IN
    IF evaluation_result = Undefined THEN Bool(FALSE)
    ELSE IF IsNullish(evaluation_result) THEN TypeError
    ELSE LET step_outputs == Get(evaluation_result, "step_outputs") IN
      IF step_outputs = Undefined THEN Bool(FALSE)
      ELSE IF IsNullish(step_outputs) THEN TypeError
      ELSE Bool(LengthPositive(step_outputs))

(***************************************************************************)
(* getAssistantMessages / getUserMessages / getConversationLength          *)
(***************************************************************************)
\* row.messages.filter(msg => msg.role === role): reading messages of a
\* nullish row throws, calling filter on anything but an array throws (the
\* property is missing), and the callback throws on a nullish element.
filterByRole(r, role) ==
  IF IsNullish(r) THEN TypeError
  ELSE LET messages == Get(r, "messages") IN
    IF ~IsArray(messages) THEN TypeError
    ELSE IF \E i \in 1..Len(messages.e) : IsNullish(messages.e[i]) THEN TypeError
    ELSE Arr(SelectSeq(messages.e, LAMBDA msg : Get(msg, "role") = Str(role)))

getAssistantMessages(r) == filterByRole(r, "assistant")

getUserMessages(r) == filterByRole(r, "user")

\* row.messages.length
getConversationLength(r) ==
  IF IsNullish(r) THEN TypeError
  ELSE LET messages == Get(r, "messages")
       IN IF IsNullish(messages) THEN TypeError ELSE Get(messages, "length")

(***************************************************************************)
(* getInputMetadata                                                        *)
(***************************************************************************)
\* row.input_metadata?.[key] ?? defaultValue
getInputMetadata_OrDefault(r, key, defaultValue) ==
  IF IsNullish(r) THEN TypeError
  ELSE LET found == OptGet(Get(r, "input_metadata"), key)
       IN IF ~Truthy(found) THEN defaultValue ELSE found

getInputMetadata(r, key, defaultValue) ==
  IF IsNullish(r) THEN TypeError
  ELSE LET found == OptGet(Get(r, "input_metadata"), key)
       IN IF IsNullish(found) THEN defaultValue ELSE found

(***************************************************************************)
(* createEvaluationRow                                                     *)
(***************************************************************************)
\* The object literal always has the five keys; options?.x of missing
\* options, or of options without x, is the value undefined.
createEvaluationRow(messages, options) ==
  Obj([messages |-> messages,
       tools |-> OptGet(options, "tools"),
       input_metadata |-> OptGet(options, "inputMetadata"),
       ground_truth |-> OptGet(options, "groundTruth"),
       evaluation_result |-> OptGet(options, "evaluationResult")])

(***************************************************************************)
(* validateEvaluationRow                                                   *)
(***************************************************************************)
Report(valid, errors) == Obj([valid |-> Bool(valid), errors |-> Arr(errors)])

\* the body of the forEach callback: what it pushes for msg at index
messageErrors(msg, index) ==
  IF ~Truthy(msg) \/ TypeOf(msg) # "object"
    THEN <<Str("messages[" \o ToString(index) \o "] must be an object")>>
  ELSE IF TypeOf(Get(msg, "role")) # "string"
    THEN <<Str("messages[" \o ToString(index) \o "].role must be a string")>>
  ELSE <<>>

\* forEach over the first n elements, indices 0..n-1, in order
RECURSIVE forEachMessage_FirstOnly(_, _)
forEachMessage_FirstOnly(messages, n) ==
  IF n = 0 THEN <<>>
  ELSE LET errors == forEachMessage_FirstOnly(messages, n - 1)
       IN IF errors # <<>> THEN errors
          ELSE errors \o messageErrors(messages[n], n - 1)

RECURSIVE forEachMessage(_, _)
forEachMessage(messages, n) ==
  IF n = 0 THEN <<>>
  ELSE forEachMessage(messages, n - 1) \o messageErrors(messages[n], n - 1)

messagesErrors(messages) ==
  IF ~IsArray(messages)
    THEN <<Str("messages field is required and must be an array")>>
  ELSE IF Len(messages.e) = 0
    THEN <<Str("messages array cannot be empty")>>
  ELSE forEachMessage(messages.e, Len(messages.e))

validateEvaluationRow_NullValid(r) ==
  IF ~Truthy(r)
    THEN Report(TRUE, <<Str("EvaluationRow is null or undefined")>>)
  ELSE LET errors == messagesErrors(Get(r, "messages"))
       IN Report(Len(errors) = 0, errors)

validateEvaluationRow(r) ==
  IF ~Truthy(r)
    THEN Report(FALSE, <<Str("EvaluationRow is null or undefined")>>)
  ELSE LET errors == messagesErrors(Get(r, "messages"))
       IN Report(Len(errors) = 0, errors)

(***************************************************************************)
(* The JSON boundary: JSON.parse(JSON.stringify(v)).  Serialization leaves *)
(* out the properties whose value is undefined, writes an undefined array  *)
(* element as null, and yields no text at all for undefined itself, which  *)
(* JSON.parse then rejects.                                                *)
(***************************************************************************)
RECURSIVE jsonValue(_)
jsonValue(v) ==
  CASE v.t = "object" ->
         Obj([k \in {j \in DOMAIN v.f : v.f[j] # Undefined} |-> jsonValue(v.f[k])])
    [] v.t = "array" ->
         Arr([i \in 1..Len(v.e) |->
                IF v.e[i] = Undefined THEN Null ELSE jsonValue(v.e[i])])
    [] OTHER -> v

jsonRoundTrip(v) == IF v = Undefined THEN SyntaxError ELSE jsonValue(v)

(***************************************************************************)
(* Inputs                                                                  *)
(***************************************************************************)
SeqsUpTo(S, n) == UNION {[1..k -> S] : k \in 0..n}

\* an optional field: absent, or present with one of vals
Field(k, vals) == {NoFields} \cup {k :> v : v \in vals}

MessageValues ==
  { Null, Num(0), Str("user"),
    Obj([role |-> Str("user")]),
    Obj([role |-> Str("")]),
    Obj([role |-> Str("assistant"), content |-> Str("2+2 equals 4.")]),
    Obj([role |-> Str("system"), content |-> Null]),
    Obj([notRole |-> Num(1)]) }

MessagesValues ==
  {Null, Str("not an array")} \cup {Arr(e) : e \in SeqsUpTo(MessageValues, MaxLen)}

Step(i) == Obj([step_index |-> Num(i), base_reward |-> Num(i)])

StepOutputsValues ==
  {Null} \cup {Arr([i \in 1..k |-> Step(i - 1)]) : k \in 0..MaxSteps}

EvaluationResultValues ==
  {Null, Obj([score |-> Num(1), reason |-> Str("Correct")])}
    \cup {Obj([score |-> Num(1), step_outputs |-> s]) : s \in StepOutputsValues}

InputMetadataValues ==
  {Null, Obj([model |-> Str("gpt-4")]),
   Obj([dataset_info |-> Obj([source |-> Str("math_eval")])]),
   Obj(("dataset_info.source" :> Str("literal key"))
         @@ [model |-> Null, is_test |-> Bool(FALSE), retries |-> Num(0),
             note |-> Str("")])}

PrimitiveRows ==
  {Null, Undefined, Num(0), Num(1), Str(""), Str("row"), Bool(FALSE), Bool(TRUE),
   Arr(<<>>)}

ObjectRows ==
  {Obj(m @@ e @@ i) : m \in Field("messages", MessagesValues),
                      e \in Field("evaluation_result", EvaluationResultValues),
                      i \in Field("input_metadata", InputMetadataValues)}

Rows == PrimitiveRows \cup ObjectRows

Keys == {"model", "dataset_info.source", "is_test", "retries", "note"}

DefaultValues == {Undefined, Str("unknown")}

CreateMessages ==
  {Null, Arr(<<>>), Arr(<<Obj([notRole |-> Num(1)])>>),
   Arr(<<Obj([role |-> Str("user")]),
         Obj([role |-> Str("assistant"), content |-> Str("2+2 equals 4.")])>>)}

CreateOptions ==
  {Undefined, Null}
    \cup {Obj(t @@ g @@ e) :
            t \in Field("tools", {Arr(<<Obj([type |-> Str("function")])>>)}),
            g \in Field("groundTruth", {Str("4")}),
            e \in Field("evaluationResult",
                        {Obj([score |-> Num(1)]),
                         Obj([score |-> Num(1), step_outputs |-> Arr(<<Step(0)>>)])})}
    \cup {Obj([inputMetadata |-> Obj([model |-> Str("gpt-4")])])}

(***************************************************************************)
(* State machine: a caller holds a row and applies the helpers to it.      *)
(***************************************************************************)
\* nothing on the heap
HeapIdle ==
  /\ heapObjects = <<>>
  /\ heapArrays = <<>>
  /\ returned = 0
  /\ snapshot = <<>>

\* the Workflow component as mounted: useState([]), useState(false), useState(0)
WorkflowIdle ==
  /\ isRunning = FALSE
  /\ terminalOutput = <<>>
  /\ currentTest = 0
  /\ runs = <<>>

\* no helper call on plain values
HelperIdle ==
  /\ row = Undefined
  /\ op = "idle"
  /\ args = <<>>
  /\ result = Undefined

Init ==
  /\ row \in Rows
  /\ op = "init"
  /\ args = <<>>
  /\ result = Undefined
  /\ HeapIdle
  /\ WorkflowIdle

CallIsEvaluationRow ==
  /\ op' = "isEvaluationRow"
  /\ args' = <<row>>
  /\ result' = isEvaluationRow(row)
  /\ UNCHANGED <<row, heapVars, workflowVars>>

CallIsTrajectoryEvaluation ==
  /\ op' = "isTrajectoryEvaluation"
  /\ args' = <<row>>
  /\ result' = isTrajectoryEvaluation(row)
  /\ UNCHANGED <<row, heapVars, workflowVars>>

CallGetAssistantMessages ==
  /\ op' = "getAssistantMessages"
  /\ args' = <<row>>
  /\ result' = getAssistantMessages(row)
  /\ UNCHANGED <<row, heapVars, workflowVars>>

CallGetUserMessages ==
  /\ op' = "getUserMessages"
  /\ args' = <<row>>
  /\ result' = getUserMessages(row)
  /\ UNCHANGED <<row, heapVars, workflowVars>>

CallGetConversationLength ==
  /\ op' = "getConversationLength"
  /\ args' = <<row>>
  /\ result' = getConversationLength(row)
  /\ UNCHANGED <<row, heapVars, workflowVars>>

CallGetInputMetadata ==
  \E key \in Keys, defaultValue \in DefaultValues :
    /\ op' = "getInputMetadata"
    /\ args' = <<row, Str(key), defaultValue>>
    /\ result' = getInputMetadata(row, key, defaultValue)
    /\ UNCHANGED <<row, heapVars, workflowVars>>

CallValidateEvaluationRow ==
  /\ op' = "validateEvaluationRow"
  /\ args' = <<row>>
  /\ result' = validateEvaluationRow(row)
  /\ UNCHANGED <<row, heapVars, workflowVars>>

\* the caller builds a new row and holds it from then on
CallCreateEvaluationRow ==
  \E messages \in CreateMessages, options \in CreateOptions :
    /\ op' = "createEvaluationRow"
    /\ args' = <<messages, options>>
    /\ result' = createEvaluationRow(messages, options)
    /\ row' = createEvaluationRow(messages, options)
    /\ UNCHANGED <<heapVars, workflowVars>>

\* the caller serializes the row it holds and holds the parsed copy instead
CallJsonRoundTrip ==
  /\ op' = "jsonRoundTrip"
  /\ args' = <<row>>
  /\ result' = jsonRoundTrip(row)
  /\ row' = IF jsonRoundTrip(row) = SyntaxError THEN row ELSE jsonRoundTrip(row)
  /\ UNCHANGED <<heapVars, workflowVars>>

Next ==
  \/ CallJsonRoundTrip
  \/ CallIsEvaluationRow
  \/ CallIsTrajectoryEvaluation
  \/ CallGetAssistantMessages
  \/ CallGetUserMessages
  \/ CallGetConversationLength
  \/ CallGetInputMetadata
  \/ CallValidateEvaluationRow
  \/ CallCreateEvaluationRow

Spec == Init /\ [][Next]_vars

(***************************************************************************)
(* The filters on a heap: row.messages is heapArrays[1], an array of       *)
(* references to message objects; filter() allocates a new array holding   *)
(* the references it selects, and the caller may mutate what it owns.  One *)
(* filter call is followed through the caller's later mutations.           *)
(***************************************************************************)
Addr == 1..MaxObjects

HeapRoles == {"user", "assistant"}

HeapContents == {"Hello", "edited"}

HeapMessages ==
  {Obj([role |-> Str(r), content |-> Str(c)]) : r \in HeapRoles, c \in HeapContents}

\* messages.filter(msg => msg.role === role): the selected references
heapFilter(messages, role) ==
  SelectSeq(messages, LAMBDA a : Get(heapObjects[a], "role") = Str(role))

\* the contents of an array of references, as the caller reads them
Deref(refs) == [i \in 1..Len(refs) |-> heapObjects[refs[i]]]

HeapInit ==
  /\ HelperIdle
  /\ WorkflowIdle
  /\ heapObjects \in [Addr -> HeapMessages]
  /\ heapArrays \in {<<[i \in 1..k |-> i]>> : k \in 0..MaxObjects}
  /\ returned = 0
  /\ snapshot = <<>>

HeapGetAssistantMessages ==
  /\ returned = 0
  /\ heapArrays' = Append(heapArrays, heapFilter(heapArrays[1], "assistant"))
  /\ returned' = Len(heapArrays) + 1
  /\ snapshot' = Deref(heapFilter(heapArrays[1], "assistant"))
  /\ UNCHANGED <<heapObjects, helperVars, workflowVars>>

HeapGetUserMessages ==
  /\ returned = 0
  /\ heapArrays' = Append(heapArrays, heapFilter(heapArrays[1], "user"))
  /\ returned' = Len(heapArrays) + 1
  /\ snapshot' = Deref(heapFilter(heapArrays[1], "user"))
  /\ UNCHANGED <<heapObjects, helperVars, workflowVars>>

\* row.messages.push(msg)
CallerPush ==
  \E a \in Addr :
    /\ Len(heapArrays[1]) < MaxObjects
    /\ heapArrays' = [heapArrays EXCEPT ![1] = Append(@, a)]
    /\ UNCHANGED <<heapObjects, returned, snapshot, helperVars, workflowVars>>

\* row.messages.pop()
CallerPop ==
  /\ Len(heapArrays[1]) > 0
  /\ heapArrays' = [heapArrays EXCEPT ![1] = SubSeq(@, 1, Len(@) - 1)]
  /\ UNCHANGED <<heapObjects, returned, snapshot, helperVars, workflowVars>>

\* row.messages[i].role = r
CallerSetRole ==
  \E i \in 1..Len(heapArrays[1]), r \in HeapRoles :
    /\ heapObjects' = [heapObjects EXCEPT ![heapArrays[1][i]] =
                         Obj([@.f EXCEPT !.role = Str(r)])]
    /\ UNCHANGED <<heapArrays, returned, snapshot, helperVars, workflowVars>>

\* row.messages[i].content = c
CallerSetContent ==
  \E i \in 1..Len(heapArrays[1]), c \in HeapContents :
    /\ heapObjects' = [heapObjects EXCEPT ![heapArrays[1][i]] =
                         Obj([@.f EXCEPT !.content = Str(c)])]
    /\ UNCHANGED <<heapArrays, returned, snapshot, helperVars, workflowVars>>

HeapNext ==
  \/ HeapGetAssistantMessages
  \/ HeapGetUserMessages
  \/ CallerPush
  \/ CallerPop
  \/ CallerSetRole
  \/ CallerSetContent

HeapSpec == HeapInit /\ [][HeapNext]_vars

(***************************************************************************)
(* The Workflow demo (src/snippets/workflow.jsx).  runTests is an async    *)
(* function: a click runs it up to its first await, and each timer expiry  *)
(* resumes it up to the next one.  State updates are applied in the order  *)
(* they are queued and committed before the next event is handled, so the  *)
(* button's disabled attribute is isRunning when a click arrives.  Each    *)
(* line carries the run that appended it.                                  *)
(***************************************************************************)
Line(r, type) == [run |-> r, type |-> type]

Lines(r, types) == [k \in 1..Len(types) |-> Line(r, types[k])]

SetupTypes == <<"command", "empty", "info", "info", "info", "empty">>

TestStartTypes == <<"test-start">>

ResultTypes(passed) ==
  <<IF passed THEN "green" ELSE "red", "metric", "metric", "metric", "metric", "empty">>

SummaryTypes ==
  <<"empty", "divider", "empty",
    "summary", "summary", "summary", "summary", "summary", "summary", "summary", "summary",
    "empty", "success", "empty", "header",
    "result", "result", "result", "result", "result", "result", "empty">>

WorkflowInit ==
  /\ HelperIdle
  /\ HeapIdle
  /\ WorkflowIdle

\* onClick={runTests}, disabled={isRunning}: runTests up to the first await
ClickRunEvaluations_NotDisabled ==
  /\ Len(runs) < MaxRuns
  /\ isRunning' = TRUE
  /\ currentTest' = 0
  /\ terminalOutput' = Lines(Len(runs) + 1, SetupTypes \o TestStartTypes)
  /\ runs' = Append(runs, [pc |-> "test", i |-> 0])
  /\ UNCHANGED <<helperVars, heapVars>>

ClickRunEvaluations ==
  /\ ~isRunning
  /\ Len(runs) < MaxRuns
  /\ isRunning' = TRUE
  /\ currentTest' = 0
  /\ terminalOutput' = Lines(Len(runs) + 1, SetupTypes \o TestStartTypes)
  /\ runs' = Append(runs, [pc |-> "test", i |-> 0])
  /\ UNCHANGED <<helperVars, heapVars>>

\* the test timer of run r expires: the result of test i, then either the
\* start of test i + 1 or the wait before the summary
TestTimer ==
  \E r \in 1..Len(runs), passed \in BOOLEAN :
    /\ runs[r].pc = "test"
    /\ IF runs[r].i + 1 < NumTests
         THEN /\ terminalOutput' = terminalOutput
                   \o Lines(r, ResultTypes(passed) \o TestStartTypes)
              /\ currentTest' = runs[r].i + 1
              /\ runs' = [runs EXCEPT ![r].i = @ + 1]
         ELSE /\ terminalOutput' = terminalOutput \o Lines(r, ResultTypes(passed))
              /\ currentTest' = currentTest
              /\ runs' = [runs EXCEPT ![r] = [pc |-> "summary", i |-> NumTests]]
    /\ UNCHANGED <<isRunning, helperVars, heapVars>>

\* the summary timer of run r expires: the summary, then setIsRunning(false)
SummaryTimer ==
  \E r \in 1..Len(runs) :
    /\ runs[r].pc = "summary"
    /\ terminalOutput' = terminalOutput \o Lines(r, SummaryTypes)
    /\ isRunning' = FALSE
    /\ runs' = [runs EXCEPT ![r].pc = "done"]
    /\ UNCHANGED <<currentTest, helperVars, heapVars>>

WorkflowNext ==
  \/ ClickRunEvaluations
  \/ TestTimer
  \/ SummaryTimer

\* a timer that was set expires
WorkflowSpec ==
  /\ WorkflowInit
  /\ [][WorkflowNext]_vars
  /\ WF_vars(TestTimer)
  /\ WF_vars(SummaryTimer)

(***************************************************************************)
(* Properties                                                              *)
(***************************************************************************)
NullError == Str("EvaluationRow is null or undefined")
NotArrayError == Str("messages field is required and must be an array")
EmptyError == Str("messages array cannot be empty")

\* a non-null object in the language's sense (arrays included)
IsObject(v) == v.t \in {"object", "array"}

HasStringRole(v) ==
  v.t = "object" /\ "role" \in DOMAIN v.f /\ v.f.role.t = "string"

\* row.messages as the caller sees it: undefined when row has no such field
MessagesOf(v) ==
  IF v.t = "object" /\ "messages" \in DOMAIN v.f THEN v.f.messages ELSE Undefined

HasNonEmptyMessages(v) ==
  ~IsNullish(v) /\ IsArray(MessagesOf(v)) /\ Len(MessagesOf(v).e) > 0

\* C1: isEvaluationRow accepts a value if and only if validateEvaluationRow
\* reports it valid with an empty error list.
C1_GuardAgreesWithValidator ==
  op = "validateEvaluationRow" =>
    (Truthy(isEvaluationRow(args[1]))
       <=> (result.f.valid = Bool(TRUE) /\ result.f.errors = Arr(<<>>)))

\* C2: every helper returns a value for every input; none throws.
C2_EveryOperationTotal == result # TypeError

\* C3: validateEvaluationRow never throws and returns {valid, errors} with
\* valid true exactly when errors is empty.
C3_ReportValidIffNoErrors ==
  op = "validateEvaluationRow" =>
    /\ result.t = "object"
    /\ DOMAIN result.f = {"valid", "errors"}
    /\ result.f.valid.t = "boolean"
    /\ IsArray(result.f.errors)
    /\ \A k \in 1..Len(result.f.errors.e) : result.f.errors.e[k].t = "string"
    /\ result.f.valid.b <=> (Len(result.f.errors.e) = 0)

C3_Witness ==
  /\ op = "validateEvaluationRow"
  /\ args[1] = Str("")
  /\ result.f.valid = Bool(FALSE)
  /\ Len(result.f.errors.e) = 1

\* C4: a row whose messages is a non-empty array of objects with a string
\* role, whatever its other fields hold, validates with no error and is
\* accepted by isEvaluationRow.
WellFormed(v) ==
  /\ HasNonEmptyMessages(v)
  /\ \A i \in 1..Len(MessagesOf(v).e) : HasStringRole(MessagesOf(v).e[i])

C4_WellFormedRowsAccepted ==
  /\ (op = "validateEvaluationRow" /\ WellFormed(args[1]))
       => result = Report(TRUE, <<>>)
  /\ (op = "isEvaluationRow" /\ WellFormed(args[1]))
       => result = Bool(TRUE)

C4_Witness ==
  /\ op = "isEvaluationRow"
  /\ WellFormed(args[1])
  /\ Len(MessagesOf(args[1]).e) = 2
  /\ MessagesOf(args[1]).e[1] = Obj([role |-> Str("")])
  /\ Get(args[1], "evaluation_result") = Null
  /\ result = Bool(TRUE)

\* C5: on a non-empty messages array the error list holds, in increasing
\* index order, exactly one string per offending index: "must be an object"
\* for a non-object, else ".role must be a string" for a non-string role.
Offending(msg) == ~IsObject(msg) \/ ~HasStringRole(msg)

ExpectedMessageError(msg, index) ==
  IF ~IsObject(msg)
    THEN Str("messages[" \o ToString(index) \o "] must be an object")
    ELSE Str("messages[" \o ToString(index) \o "].role must be a string")

C5_OneErrorPerOffendingMessage ==
  (op = "validateEvaluationRow" /\ HasNonEmptyMessages(args[1])) =>
    LET messages == MessagesOf(args[1]).e
        errors == result.f.errors.e
        offending == {i \in 1..Len(messages) : Offending(messages[i])}
    IN /\ Len(errors) = Cardinality(offending)
       /\ \A i \in offending :
            errors[Cardinality({j \in offending : j <= i})]
              = ExpectedMessageError(messages[i], i - 1)

C5_Witness ==
  /\ op = "validateEvaluationRow"
  /\ result.f.errors.e = <<Str("messages[0] must be an object"),
                           Str("messages[1].role must be a string")>>

\* C6: the null error is reported for null and undefined, alone and with
\* valid=false, and for no other input; any other input (0, false and ""
\* included) gets the messages rules instead.
C6_NullErrorOnlyForNullish ==
  op = "validateEvaluationRow" =>
    IF IsNullish(args[1])
      THEN result = Report(FALSE, <<NullError>>)
      ELSE /\ \A k \in 1..Len(result.f.errors.e) : result.f.errors.e[k] # NullError
           /\ ~IsArray(MessagesOf(args[1])) => result.f.errors.e = <<NotArrayError>>

\* C7: a non-null row whose messages is missing or not an array gets exactly
\* the error "messages field is required and must be an array", one whose
\* messages is an empty array exactly "messages array cannot be empty";
\* valid is false in both cases.
C7_SingleMessagesError ==
  (op = "validateEvaluationRow" /\ ~IsNullish(args[1])) =>
    /\ ~IsArray(MessagesOf(args[1])) => result = Report(FALSE, <<NotArrayError>>)
    /\ (IsArray(MessagesOf(args[1])) /\ Len(MessagesOf(args[1]).e) = 0)
         => result = Report(FALSE, <<EmptyError>>)

\* C8: isEvaluationRow returns the boolean true when obj is a non-null
\* object whose messages is an array of non-null objects with a string role,
\* and the boolean false for every other input.
C8_GuardReturnsBoolean ==
  op = "isEvaluationRow" =>
    result = Bool(/\ IsObject(args[1])
                  /\ IsArray(MessagesOf(args[1]))
                  /\ \A i \in 1..Len(MessagesOf(args[1]).e) :
                       HasStringRole(MessagesOf(args[1]).e[i]))

\* C9: isTrajectoryEvaluation returns true exactly when evaluation_result is
\* present with a present step_outputs of length > 0, and false otherwise, so
\* every row is classified.
IsPresent(v, k) == v.t = "object" /\ k \in DOMAIN v.f /\ ~IsNullish(v.f[k])

C9_TrajectoryIffNonEmptySteps ==
  (op = "isTrajectoryEvaluation" /\ args[1].t = "object") =>
    result = Bool(/\ IsPresent(args[1], "evaluation_result")
                  /\ IsPresent(args[1].f.evaluation_result, "step_outputs")
                  /\ IsArray(args[1].f.evaluation_result.f.step_outputs)
                  /\ Len(args[1].f.evaluation_result.f.step_outputs.e) > 0)

\* C10: on a row with an array messages, getAssistantMessages and
\* getUserMessages return the messages with role "assistant" / "user" in
\* their original order; the results share no message and their lengths sum
\* to at most getConversationLength, with equality exactly when every role is
\* "user" or "assistant".
WithRole(messages, role) ==
  SelectSeq(messages, LAMBDA msg : HasStringRole(msg) /\ msg.f.role = Str(role))

C10_FiltersPartitionByRole ==
  (op \in {"getAssistantMessages", "getUserMessages"} /\ IsArray(MessagesOf(args[1]))) =>
    LET messages == MessagesOf(args[1]).e
        assistant == getAssistantMessages(args[1])
        user == getUserMessages(args[1])
        length == getConversationLength(args[1])
    IN /\ result = (IF op = "getAssistantMessages" THEN assistant ELSE user)
       /\ assistant = Arr(WithRole(messages, "assistant"))
       /\ user = Arr(WithRole(messages, "user"))
       /\ \A i \in 1..Len(assistant.e), j \in 1..Len(user.e) : assistant.e[i] # user.e[j]
       /\ length = Num(Len(messages))
       /\ Len(assistant.e) + Len(user.e) <= length.n
       /\ (Len(assistant.e) + Len(user.e) = length.n)
            <=> \A i \in 1..Len(messages) :
                  HasStringRole(messages[i])
                    /\ messages[i].f.role \in {Str("user"), Str("assistant")}

\* C11: a filter leaves the row as it was and returns a newly allocated
\* array, and whatever the caller does afterwards to row.messages or to a
\* message object in it, the returned array and its elements read as they
\* did when it was returned.
FilterLeavesRowUnchanged ==
  [][returned' # returned =>
       (heapObjects' = heapObjects /\ heapArrays'[1] = heapArrays[1])]_vars

ReturnedIsNewArray ==
  [][returned' # returned => returned' \notin 1..Len(heapArrays)]_vars

ReturnedArrayStable ==
  returned # 0 => Len(heapArrays[returned]) = Len(snapshot)

ReturnedElementsStable ==
  returned # 0 => Deref(heapArrays[returned]) = snapshot

C11_ReturnedSnapshotStable ==
  /\ FilterLeavesRowUnchanged
  /\ ReturnedIsNewArray
  /\ []ReturnedElementsStable

\* C12: getInputMetadata looks key up as a direct key of input_metadata (a
\* dotted key is one literal key).  As claimed: it returns whatever is stored
\* under key, null included, and defaultValue when input_metadata is absent
\* or has no such key.
InputMetadataOf(v) ==
  IF v.t = "object" /\ "input_metadata" \in DOMAIN v.f
    THEN v.f.input_metadata ELSE Undefined

ContainsKey(v, key) ==
  InputMetadataOf(v).t = "object" /\ key \in DOMAIN InputMetadataOf(v).f

OptionOf ==
  [tools |-> "tools", input_metadata |-> "inputMetadata",
   ground_truth |-> "groundTruth", evaluation_result |-> "evaluationResult"]

Supplied(options, name) ==
  options.t = "object" /\ name \in DOMAIN options.f /\ options.f[name] # Undefined

C13_OmittedOptionsAbsent ==
  op = "createEvaluationRow" =>
    /\ result.t = "object"
    /\ "messages" \in DOMAIN result.f /\ result.f.messages = args[1]
    /\ \A field \in DOMAIN OptionOf :
         IF Supplied(args[2], OptionOf[field])
           THEN field \in DOMAIN result.f
                  /\ result.f[field] = args[2].f[OptionOf[field]]
           ELSE field \notin DOMAIN result.f

\* what the code does hold to: each field reads as its option, or as
\* undefined when the option is omitted
CreatedFieldsReadAsOptions ==
  op = "createEvaluationRow" =>
    /\ Get(result, "messages") = args[1]
    /\ \A field \in DOMAIN OptionOf :
         Get(result, field) = IF Supplied(args[2], OptionOf[field])
                                THEN args[2].f[OptionOf[field]] ELSE Undefined

\* C14: for a row that validates, the JSON round trip changes none of the
\* validator's error list, isEvaluationRow's answer and
\* isTrajectoryEvaluation's outcome.
IsValidRow(v) == validateEvaluationRow(v).f.valid = Bool(TRUE)

C14_ValidationStableAcrossJson ==
  (op = "jsonRoundTrip" /\ IsValidRow(args[1])) =>
    /\ result # SyntaxError
    /\ validateEvaluationRow(result).f.errors = validateEvaluationRow(args[1]).f.errors
    /\ isEvaluationRow(result) = isEvaluationRow(args[1])
    /\ isTrajectoryEvaluation(result) = isTrajectoryEvaluation(args[1])

C14_Witness ==
  /\ op = "jsonRoundTrip"
  /\ IsValidRow(args[1])
  /\ DOMAIN args[1].f = {"messages", "tools", "input_metadata", "ground_truth",
                         "evaluation_result"}
  /\ DOMAIN result.f = {"messages"}
  /\ isTrajectoryEvaluation(result) = Bool(FALSE)

\* C15: runs of runTests never overlap.  A run starts only while isRunning
\* is false, sets isRunning and leaves only its own lines on the terminal;
\* isRunning is false again only once the 8 tests and the summary of that run
\* are on the terminal; the terminal never mixes lines of two runs; and every
\* started run ends with isRunning false.
RunLength == Len(SetupTypes) + NumTests * (1 + Len(ResultTypes(TRUE))) + Len(SummaryTypes)

OneRun == \A j, k \in 1..Len(terminalOutput) : terminalOutput[j].run = terminalOutput[k].run

CountType(type) ==
  Cardinality({k \in 1..Len(terminalOutput) : terminalOutput[k].type = type})

WorkflowSafe ==
  /\ OneRun
  /\ Cardinality({r \in 1..Len(runs) : runs[r].pc # "done"}) <= 1
  /\ isRunning <=> \E r \in 1..Len(runs) : runs[r].pc # "done"
  /\ (~isRunning /\ runs # <<>>) =>
       /\ Len(terminalOutput) = RunLength
       /\ terminalOutput[1].run = Len(runs)
       /\ CountType("test-start") = NumTests
       /\ CountType("green") + CountType("red") = NumTests
       /\ CountType("success") = 1

RunStartsWhenIdle ==
  [][Len(runs') > Len(runs) =>
       /\ ~isRunning
       /\ isRunning'
       /\ \A k \in 1..Len(terminalOutput') : terminalOutput'[k].run = Len(runs')
       /\ terminalOutput'[1].type = "command"]_vars

C15_RunsNeverOverlap ==
  /\ []WorkflowSafe
  /\ RunStartsWhenIdle
  /\ (isRunning ~> ~isRunning)

C15_Witness ==
  /\ Len(runs) = 2
  /\ ~isRunning
  /\ Len(terminalOutput) = RunLength
  /\ terminalOutput[1].run = 2

====
